---- MODULE Spec2Model ----
(***************************************************************************)
(* A model of quickstart.py, the script that bootstraps a Sinch iOS SDK    *)
(* sample project: configuration lookup (class Config), the pipeline of    *)
(* Bootstrap.run as driven by main, credential injection and the search    *)
(* for a free destination under ~/Desktop.                                 *)
(***************************************************************************)
EXTENDS Integers, Sequences, FiniteSets, TLC

VARIABLES
    config,        \* Config.values: the decoded user JSON (NoConfig before read_config)
    lookupKey,     \* the key of the last Config.__getitem__ call
    lookupResult,  \* what that call returned or raised
    pc,            \* where main is: the call about to be made
    argc,          \* len(sys.argv)
    arg,           \* sys.argv[1]: what it decodes to
    isDarwin,      \* platform.system() starts with "darwin"
    xcodeInstalled,\* /Applications/Xcode.app exists
    tmp,           \* the directory tempfile.mkdtemp() made and what it holds
    archive,       \* what the archive URL answered, once it was asked
    desktopExists, \* ~/Desktop exists
    occupied,      \* the ordinals i whose path ~/Desktop/Sinch-<sample>[-i] exists
    desktopCopy,   \* what shutil.copytree put at the destination
    selfPath,      \* Bootstrap._path: "none" before __init__, "tmp", "desktop"
    dst,           \* move_to_desktop's dst: the ordinal of the candidate, -1 before
    exc,           \* the exception in flight
    stderr,        \* what was written to sys.stderr
    ret,           \* the value main returned
    exitcode,      \* the process exit status, -1 while the process runs
    trace,         \* the steps of Bootstrap.run entered, in order
    completed,     \* the steps of Bootstrap.run that returned normally, in order
    netCalls,      \* the number of urlopen calls made
    opened,        \* the calls of _open: what they were given and how they went
    sessions       \* the sessions relocating at the same time on this host

cfgVars == <<config, lookupKey, lookupResult>>

hostVars == <<argc, arg, isDarwin, xcodeInstalled, sessions>>

fsVars == <<tmp, archive, desktopExists, occupied, desktopCopy, selfPath, dst>>

runVars == <<pc, exc, stderr, ret, exitcode, trace, completed, netCalls, opened>>

vars == <<cfgVars, hostVars, fsVars, runVars>>

(***************************************************************************)
(* Python values.  A decoded JSON value is None (JSON null, or the result  *)
(* of dict.get on an absent key), a string or a mapping.  A raised         *)
(* exception is a value of kind "raise".                                   *)
(***************************************************************************)
None == [kind |-> "none"]
Str(s) == [kind |-> "str", s |-> s]
Map(m) == [kind |-> "map", m |-> m]
IntValue(n) == [kind |-> "int", n |-> n]
Raise(type, message) == [kind |-> "raise", exc |-> type, arg |-> message]

\* The state of `config` before read_config has returned.
NoConfig == [kind |-> "unread"]

\* dict.get(k): the value at k, None when k is absent.
dict_get(d, k) == IF k \in DOMAIN d.m THEN d.m[k] ELSE None

(***************************************************************************)
(* Keys.  A dotted key "credentials.application_key" is the sequence of    *)
(* its segments, so that key.split(".", 1) is <<Head(key), Tail(key)>>.    *)
(***************************************************************************)
K_archive == <<"archive">>
K_sample == <<"sample">>
K_application_key == <<"credentials", "application_key">>
K_application_secret == <<"credentials", "application_secret">>
K_environment == <<"credentials", "environment">>

DEFAULT_ARCHIVE_URL == "http://www.sinch.com/ios-sdk"
DEFAULT_SINCH_ENVIRONMENT == "sandbox.sinch.com"

\* read_config: the alias table handed to Config, canonical key -> short key.
keyaliases ==
    (K_archive :> <<"a">>) @@
    (K_sample :> <<"s">>) @@
    (K_application_key :> <<"c", "k">>) @@
    (K_application_secret :> <<"c", "s">>) @@
    (K_environment :> <<"c", "e">>)

\* read_config: the defaults handed to Config.
defaults ==
    Map(("archive" :> Str(DEFAULT_ARCHIVE_URL)) @@
        ("credentials" :> Map("environment" :> Str(DEFAULT_SINCH_ENVIRONMENT))))

\* Config._get_value, lines 221-222: the alias substitution.
AliasedKey(key, use_alias) ==
    IF use_alias /\ key \in DOMAIN keyaliases THEN keyaliases[key] ELSE key

\* Config._get_value.  values.get on a value that is no mapping raises
\* AttributeError; the recursive call passes no use_alias, so it is True there.
RECURSIVE get_value(_, _, _)
get_value(values, key, use_alias) ==
    LET k == AliasedKey(key, use_alias)
        parts0 == Head(k)
        parts1 == Tail(k)
    IN  IF values.kind # "map"
        THEN Raise("AttributeError", k)
        ELSE LET v == dict_get(values, parts0)
             IN  IF v.kind = "none" THEN None
                 ELSE IF parts1 = <<>> THEN v
                 ELSE get_value(v, parts1, TRUE)

\* Config.__getitem__: the user values first, then the defaults without
\* aliasing; KeyError names the key as the caller gave it.
getitem(values, key) ==
    LET v == get_value(values, key, TRUE)
    IN  IF v.kind # "none"
        THEN v
        ELSE LET d == get_value(defaults, key, FALSE)
             IN  IF d.kind = "none" THEN Raise("KeyError", key) ELSE d

(***************************************************************************)
(* The user values the lookups are tried on, JSON objects as the module    *)
(* docstring describes them: every combination of absent, null and string  *)
(* entries under the long and the short top-level names, and of absent,    *)
(* null, scalar and mapping entries for the credentials.                   *)
(***************************************************************************)
Absent == [kind |-> "absent"]

\* The mapping holding the entries of `choice` (key -> value or Absent) that are present.
MkMap(choice) ==
    LET present == {k \in DOMAIN choice : choice[k].kind # "absent"}
    IN  Map([k \in present |-> choice[k]])

ScalarChoices(tag) == {Absent, None, Str(tag)}
PresentChoices(tag) == {Absent, Str(tag)}

ShortCredentials ==
    {Absent, None, Str("u:c")} \cup
    {MkMap([k |-> ck, s |-> cs, e |-> ce]) :
        ck \in ScalarChoices("u:c.k"), cs \in PresentChoices("u:c.s"),
        ce \in PresentChoices("u:c.e")}

LongCredentials ==
    {Absent, None, Str("u:credentials")} \cup
    {MkMap([application_key |-> ck, application_secret |-> cs, environment |-> ce]) :
        ck \in ScalarChoices("u:credentials.application_key"),
        cs \in PresentChoices("u:credentials.application_secret"),
        ce \in PresentChoices("u:credentials.environment")}

\* An extra top-level mapping whose inner keys are names of the alias table.
ExtraChoices ==
    {Absent, Map("a" :> Str("u:x.a")), Map("archive" :> Str("u:x.archive"))}

UserValues ==
    {MkMap([a |-> va, archive |-> vla, s |-> vs, sample |-> vls,
            c |-> vc, credentials |-> vlc, x |-> vx]) :
        va \in ScalarChoices("u:a"), vla \in PresentChoices("u:archive"),
        vs \in ScalarChoices("u:s"), vls \in PresentChoices("u:sample"),
        vc \in ShortCredentials, vlc \in LongCredentials, vx \in ExtraChoices}

CanonicalKeys ==
    {K_archive, K_sample, K_application_key, K_application_secret, K_environment}

LookupKeys ==
    CanonicalKeys \cup {keyaliases[k] : k \in CanonicalKeys} \cup
    {<<"credentials">>, <<"c">>, <<"missing">>, <<"x", "archive">>, <<"x", "a">>,
     <<"archive", "url">>, <<"a", "url">>, <<"credentials", "missing">>}

(***************************************************************************)
(* Samples.                                                                *)
(***************************************************************************)
\* Bootstrap.sample_project_name: the samples dictionary.
samples ==
    ("im" :> "SinchIM") @@ ("app-to-app" :> "SinchCalling") @@
    ("app-to-phone" :> "SinchPSTN") @@ ("video" :> "SinchVideo")

\* Bootstrap.sample_project_name: config['sample'], then samples.get of it.  A
\* mapping is unhashable (TypeError); a name that is no key gives None.
sample_project_name(values) ==
    LET name == getitem(values, K_sample)
    IN  IF name.kind = "raise" THEN name
        ELSE IF name.kind = "map" THEN Raise("TypeError", "unhashable type: 'dict'")
        ELSE IF name.s \notin DOMAIN samples
             THEN Raise("Exception", "Could not determine which sample to prepare")
        ELSE Str(samples[name.s])

(***************************************************************************)
(* AppDelegate.m.  The file is the sequence of its tokens: a placeholder,  *)
(* a double-quoted host name (alone on its line, so that the greedy        *)
(* pattern ".*\.sinch\.com" matches exactly that token) or other text.     *)
(***************************************************************************)
KEY_PLACEHOLDER == "<APPLICATION KEY>"
SECRET_PLACEHOLDER == "<APPLICATION SECRET>"

Quote(s) == "\"" \o s \o "\""

\* The tokens the pattern r'\".*\.sinch\.com\"' matches.
ENVIRONMENT_MATCHES == {Quote("clientapi.sinch.com"), Quote("sandbox.sinch.com")}

\* re.MULTILINE, the value inject_credentials binds to opts.
RE_MULTILINE == 8

\* re.sub(pattern, repl, source, count) on tokens: the leftmost matches are
\* replaced, at most `count` of them, all of them when count is 0.
RECURSIVE sub_from(_, _, _, _, _)
sub_from(pattern, repl, source, limited, left) ==
    IF source = <<>> THEN <<>>
    ELSE IF Head(source) \in pattern /\ (~limited \/ left > 0)
         THEN <<repl>> \o sub_from(pattern, repl, Tail(source), limited, left - 1)
         ELSE <<Head(source)>> \o sub_from(pattern, repl, Tail(source), limited, left)

re_sub(pattern, repl, source, count) ==
    sub_from(pattern, repl, source, count # 0, count)

\* inject_credentials, lines 172-177: the three substitutions.  opts is passed
\* as the fourth positional argument of re.sub, which is count.
substitute(source, application_key, application_secret, environment) ==
    LET opts == RE_MULTILINE
        s1 == re_sub({KEY_PLACEHOLDER}, application_key, source, opts)
        s2 == re_sub({SECRET_PLACEHOLDER}, application_secret, s1, opts)
    IN  re_sub(ENVIRONMENT_MATCHES, Quote(environment), s2, opts)

NoFile == [kind |-> "file", exists |-> FALSE, content |-> <<>>]
File(content) == [kind |-> "file", exists |-> TRUE, content |-> content]

\* inject_credentials that never writes the substituted source back.
inject_credentials_unwritten(values, f) ==
    LET application_key == getitem(values, K_application_key)
        application_secret == getitem(values, K_application_secret)
        environment == getitem(values, K_environment)
    IN  IF application_key.kind = "raise" THEN application_key
        ELSE IF application_secret.kind = "raise" THEN application_secret
        ELSE IF environment.kind = "raise" THEN environment
        ELSE IF ~f.exists THEN Raise("IOError", "No such file or directory: AppDelegate.m")
        ELSE f

\* inject_credentials on the file `f`: the new content, or what is raised.
\* The three lookups come first, then open(target_file, 'r+'), then re.sub,
\* which raises TypeError on a replacement that is no string.
inject_credentials(values, f) ==
    LET application_key == getitem(values, K_application_key)
        application_secret == getitem(values, K_application_secret)
        environment == getitem(values, K_environment)
    IN  IF application_key.kind = "raise" THEN application_key
        ELSE IF application_secret.kind = "raise" THEN application_secret
        ELSE IF environment.kind = "raise" THEN environment
        ELSE IF ~f.exists THEN Raise("IOError", "No such file or directory: AppDelegate.m")
        ELSE IF application_key.kind # "str" \/ application_secret.kind # "str"
                \/ environment.kind # "str"
             THEN Raise("TypeError", "replacement is not a string")
        ELSE File(substitute(f.content, application_key.s, application_secret.s,
                             environment.s))

Rep(tok, n) == [i \in 1..n |-> tok]

\* The most occurrences of one placeholder in a source file of the model.
MaxOccurrences == 9

\* A source file with nk key placeholders, ns secret placeholders and ne
\* quoted host names, other text around them.
SourceFile(nk, ns, ne) ==
    <<"#import">> \o Rep(KEY_PLACEHOLDER, nk) \o <<Quote("example.com")>> \o
    Rep(SECRET_PLACEHOLDER, ns) \o Rep(Quote("clientapi.sinch.com"), ne) \o <<"@end">>

(***************************************************************************)
(* The file trees of the session: what the archive holds, what the         *)
(* temporary directory holds and what was copied to the Desktop, as far as *)
(* the script looks: Sinch/samples, the directory and the .xcodeproj of    *)
(* the sample the configuration names, and its AppDelegate.m.              *)
(***************************************************************************)
Tree(hasSamples, hasSample, hasXcodeproj, delegate) ==
    [samples |-> hasSamples, sample |-> hasSample, xcodeproj |-> hasXcodeproj,
     delegate |-> delegate]

EmptyTree == Tree(FALSE, FALSE, FALSE, NoFile)

\* A directory: whether it exists, the downloaded package in it ("none" when
\* there is none, else the kind of its bytes) and the extracted tree.
NoDir == [exists |-> FALSE, package |-> "none", tree |-> EmptyTree]
NewDir == [exists |-> TRUE, package |-> "none", tree |-> EmptyTree]

\* The source files the archives of the pipeline carry.
ArchivedFiles ==
    {NoFile} \cup
    {File(SourceFile(n, n, n)) : n \in {0, 1, 2, MaxOccurrences}}

\* The trees an archive may hold.
ArchiveTrees ==
    {EmptyTree, Tree(TRUE, FALSE, FALSE, NoFile), Tree(TRUE, FALSE, TRUE, NoFile)} \cup
    {Tree(TRUE, TRUE, x, f) : x \in BOOLEAN, f \in ArchivedFiles}

\* What urlopen and the copy to disk may end in: an error, or a body of one
\* of these kinds.  A truncated archive is a tar.bz2 cut short.
NoArchive == [body |-> "none", tree |-> EmptyTree]
Responses ==
    {[body |-> b, tree |-> EmptyTree] : b \in {"empty", "text", "tar"}} \cup
    {[body |-> b, tree |-> t] : b \in {"tar.bz2", "truncated"}, t \in ArchiveTrees}

\* tarfile.is_tarfile: a truncated archive passes when its first header block
\* can still be read.
is_tarfile(body, headerReadable) ==
    \/ body \in {"tar", "tar.bz2"}
    \/ body = "truncated" /\ headerReadable

\* What extractall leaves of an archive whose stream ends early: the entries
\* before the cut, here the directories without the sample's files.
PartialTree(t) == Tree(t.samples, FALSE, FALSE, NoFile)

(***************************************************************************)
(* The Desktop.                                                            *)
(***************************************************************************)
\* One attempt more: range(100).
Attempts_one_more == 99 + 1

\* range(99) in get_desktop_candidate.
Attempts == 99

\* The largest ordinal i for which the model lets Sinch-<sample>-i exist.
MaxOrdinal == 100

Path(i) == [kind |-> "path", ordinal |-> i]

\* get_desktop_candidate: the loop over range(Attempts), from ordinal i on.
\* ordinal2suffix makes ordinal 0 the bare name and i the suffix -i.
RECURSIVE candidate_from(_, _)
candidate_from(i, occ) ==
    IF i >= Attempts
    THEN Raise("Exception", "Could not find suitable target directory in ~/Desktop")
    ELSE IF i \notin occ THEN Path(i)
    ELSE candidate_from(i + 1, occ)

\* The search started at the suffix -1, the bare name skipped.
get_desktop_candidate_numbered(occ) == candidate_from(1, occ)

get_desktop_candidate(occ) == candidate_from(0, occ)

\* The ordinals 0 .. k-1: the bare name and its first k-1 numbered siblings.
Prefix(k) == 0..(k - 1)

NoLookup == [kind |-> "nolookup"]

NoExc == [kind |-> "noexc"]
\* No session other than the one of main is relocating.
NoSessions == <<>>
NoRet == [kind |-> "running"]

(***************************************************************************)
(* main and Bootstrap.run.  pc names the call about to be made; an         *)
(* exception raised by a call takes pc to "except", main's handler.        *)
(***************************************************************************)
\* run with the relocation placed before the injection.
run_next_relocate_first(step) ==
    CASE step = "sample_name" -> "download_archive"
      [] step = "download_archive" -> "unpack"
      [] step = "unpack" -> "verify_unpacked"
      [] step = "verify_unpacked" -> "move_to_desktop"
      [] step = "move_to_desktop" -> "inject_credentials"
      [] step = "inject_credentials" -> "open_in_finder"
      [] step = "open_in_finder" -> "open_in_xcode"
      [] step = "open_in_xcode" -> "return"

\* run with the injection placed after the two open calls.
run_next_inject_last(step) ==
    CASE step = "sample_name" -> "download_archive"
      [] step = "download_archive" -> "unpack"
      [] step = "unpack" -> "verify_unpacked"
      [] step = "verify_unpacked" -> "move_to_desktop"
      [] step = "move_to_desktop" -> "open_in_finder"
      [] step = "open_in_finder" -> "open_in_xcode"
      [] step = "open_in_xcode" -> "inject_credentials"
      [] step = "inject_credentials" -> "return"

\* Bootstrap.run, lines 81-88: the step made after `step` has returned.
run_next(step) ==
    CASE step = "sample_name" -> "download_archive"
      [] step = "download_archive" -> "unpack"
      [] step = "unpack" -> "verify_unpacked"
      [] step = "verify_unpacked" -> "inject_credentials"
      [] step = "inject_credentials" -> "move_to_desktop"
      [] step = "move_to_desktop" -> "open_in_finder"
      [] step = "open_in_finder" -> "open_in_xcode"
      [] step = "open_in_xcode" -> "return"

\* The step of run at pc is entered.
Enter(step) == pc = step /\ trace' = Append(trace, step)

\* The step returns normally: run goes on to its next line.
Returns(step) ==
    /\ pc' = run_next(step)
    /\ completed' = Append(completed, step)
    /\ exc' = exc

\* An exception leaves the call: nothing of run or main runs before the handler.
Raises(e) ==
    /\ pc' = "except"
    /\ exc' = e
    /\ completed' = completed

\* The directory self.path() names.
CurrentDir == IF selfPath = "desktop" THEN desktopCopy ELSE tmp

\* main, lines 300-303: the usage check.
Main ==
    /\ pc = "main"
    /\ IF argc # 2
       THEN /\ stderr' = Append(stderr, Str("Usage"))
            /\ ret' = IntValue(1)
            /\ pc' = "exit"
       ELSE /\ pc' = "verify_hostmachine"
            /\ UNCHANGED <<stderr, ret>>
    /\ UNCHANGED <<cfgVars, hostVars, fsVars, exc, exitcode, trace, completed,
                   netCalls, opened>>

\* verify_hostmachine with neither check made.
VerifyHostmachine_unchecked ==
    /\ pc = "verify_hostmachine"
    /\ pc' = "read_config"
    /\ UNCHANGED <<exc, completed>>
    /\ UNCHANGED <<cfgVars, hostVars, fsVars, stderr, ret, exitcode, trace,
                   netCalls, opened>>

\* verify_hostmachine.
VerifyHostmachine ==
    /\ pc = "verify_hostmachine"
    /\ IF ~isDarwin
       THEN Raises(Raise("Exception", "This script is only intended to run on Mac / OS X"))
       ELSE IF ~xcodeInstalled
       THEN Raises(Raise("Exception", "Xcode not installed?"))
       ELSE pc' = "read_config" /\ UNCHANGED <<exc, completed>>
    /\ UNCHANGED <<cfgVars, hostVars, fsVars, stderr, ret, exitcode, trace,
                   netCalls, opened>>

\* read_config: base64.b64decode and json.load raise on text that is no
\* Base64 or no JSON; otherwise a Config over the decoded values is returned.
ReadConfig ==
    /\ pc = "read_config"
    /\ IF arg.kind = "badbase64"
       THEN Raises(Raise("binascii.Error", "Incorrect padding")) /\ UNCHANGED config
       ELSE IF arg.kind = "badjson"
       THEN Raises(Raise("ValueError", "No JSON object could be decoded"))
            /\ UNCHANGED config
       ELSE /\ config' = arg.values
            /\ pc' = "Bootstrap"
            /\ UNCHANGED <<exc, completed>>
    /\ UNCHANGED <<lookupKey, lookupResult, hostVars, fsVars, stderr, ret, exitcode,
                   trace, netCalls, opened>>

\* Bootstrap.__init__: tempfile.mkdtemp() makes the session directory, or fails.
BootstrapInit ==
    /\ pc = "Bootstrap"
    /\ \E made \in BOOLEAN :
        IF made
        THEN /\ tmp' = NewDir
             /\ selfPath' = "tmp"
             /\ pc' = "sample_name"
             /\ UNCHANGED <<exc, completed>>
        ELSE /\ Raises(Raise("OSError", "mkdtemp"))
             /\ UNCHANGED <<tmp, selfPath>>
    /\ UNCHANGED <<cfgVars, hostVars, archive, desktopExists, occupied, desktopCopy,
                   dst, stderr, ret, exitcode, trace, netCalls, opened>>

\* Bootstrap.run, line 81: the log line evaluates self.sample_name(), that is
\* config['sample']; the name is not looked up in the samples dictionary here.
SampleName ==
    /\ Enter("sample_name")
    /\ LET name == getitem(config, K_sample)
       IN  IF name.kind = "raise" THEN Raises(name) ELSE Returns("sample_name")
    /\ UNCHANGED <<cfgVars, hostVars, fsVars, stderr, ret, exitcode, netCalls, opened>>

\* download_archive without the size check.
download_failed_unchecked(body) == FALSE

\* download_archive, line 143: os.stat(dst).st_size <= 0.
download_failed(body) == body = "empty"

\* Bootstrap.download_archive: config['archive'], urlopen, the copy to a file
\* of the session directory, the size check.
DownloadArchive ==
    /\ Enter("download_archive")
    /\ LET url == getitem(config, K_archive)
       IN  IF url.kind = "raise"
           THEN Raises(url) /\ UNCHANGED <<tmp, archive, netCalls>>
           ELSE IF url.kind # "str"
           THEN Raises(Raise("AttributeError", "url is no string"))
                /\ UNCHANGED <<tmp, archive, netCalls>>
           ELSE /\ netCalls' = netCalls + 1
                /\ \/ /\ Raises(Raise("URLError", url.s))
                      /\ UNCHANGED <<tmp, archive>>
                   \/ \E r \in Responses, written \in BOOLEAN :
                        /\ archive' = r
                        /\ IF ~written
                           THEN /\ tmp' = [tmp EXCEPT !.package = "partial"]
                                /\ Raises(Raise("IOError", "copyfileobj"))
                           ELSE /\ tmp' = [tmp EXCEPT !.package = r.body]
                                /\ IF download_failed(r.body)
                                   THEN Raises(Raise("Exception", "Failed to download"))
                                   ELSE Returns("download_archive")
    /\ UNCHANGED <<cfgVars, hostVars, desktopExists, occupied, desktopCopy, selfPath,
                   dst, stderr, ret, exitcode, opened>>

\* Bootstrap.unpack: is_tarfile, tarfile.open(tar_path, 'r:bz2'), extractall
\* into the session directory.
Unpack ==
    /\ Enter("unpack")
    /\ \E headerReadable \in BOOLEAN :
        IF ~is_tarfile(tmp.package, headerReadable)
        THEN Raises(Raise("Exception", "Unable to read package file")) /\ UNCHANGED tmp
        ELSE IF tmp.package = "tar"
        THEN Raises(Raise("ReadError", "not a bzip2 file")) /\ UNCHANGED tmp
        ELSE IF tmp.package = "truncated"
        THEN /\ tmp' = [tmp EXCEPT !.tree = PartialTree(archive.tree)]
             /\ Raises(Raise("EOFError", "Compressed file ended"))
        ELSE /\ tmp' = [tmp EXCEPT !.tree = archive.tree]
             /\ Returns("unpack")
    /\ UNCHANGED <<cfgVars, hostVars, archive, desktopExists, occupied, desktopCopy,
                   selfPath, dst, stderr, ret, exitcode, netCalls, opened>>

\* Bootstrap.verify_unpacked: sample_path() looks the sample name up in the
\* samples dictionary, then the directory must exist.
VerifyUnpacked ==
    /\ Enter("verify_unpacked")
    /\ LET project == sample_project_name(config)
       IN  IF project.kind = "raise" THEN Raises(project)
           ELSE IF ~CurrentDir.tree.sample
           THEN Raises(Raise("Exception", "Could not find sample at path"))
           ELSE Returns("verify_unpacked")
    /\ UNCHANGED <<cfgVars, hostVars, fsVars, stderr, ret, exitcode, netCalls, opened>>

\* Bootstrap.inject_credentials on AppDelegate.m of the sample directory.
InjectCredentials ==
    /\ Enter("inject_credentials")
    /\ LET project == sample_project_name(config)
           r == inject_credentials(config, tmp.tree.delegate)
       IN  IF project.kind = "raise" THEN Raises(project) /\ UNCHANGED tmp
           ELSE IF r.kind = "raise" THEN Raises(r) /\ UNCHANGED tmp
           ELSE /\ tmp' = [tmp EXCEPT !.tree.delegate = r]
                /\ Returns("inject_credentials")
    /\ UNCHANGED <<cfgVars, hostVars, archive, desktopExists, occupied, desktopCopy,
                   selfPath, dst, stderr, ret, exitcode, netCalls, opened>>

\* move_to_desktop without the update of _path.
MoveToDesktop_path_kept ==
    /\ Enter("move_to_desktop")
    /\ LET name == getitem(config, K_sample)
           found == get_desktop_candidate(occupied)
       IN  IF ~desktopExists
           THEN /\ Raises(Raise("Exception", "Could not locate your Desktop folder"))
                /\ UNCHANGED <<occupied, desktopCopy, selfPath, dst>>
           ELSE IF name.kind # "str"
           THEN /\ Raises(IF name.kind = "raise" THEN name
                          ELSE Raise("TypeError", "cannot concatenate"))
                /\ UNCHANGED <<occupied, desktopCopy, selfPath, dst>>
           ELSE IF found.kind = "raise"
           THEN /\ Raises(found)
                /\ UNCHANGED <<occupied, desktopCopy, selfPath, dst>>
           ELSE /\ dst' = found.ordinal
                /\ \E copied \in {"all", "part", "nothing"} :
                     CASE copied = "all" ->
                            /\ occupied' = occupied \cup {found.ordinal}
                            /\ desktopCopy' = tmp
                            /\ UNCHANGED selfPath
                            /\ Returns("move_to_desktop")
                       [] copied = "part" ->
                            /\ occupied' = occupied \cup {found.ordinal}
                            /\ desktopCopy' = NewDir
                            /\ Raises(Raise("shutil.Error", "copytree"))
                            /\ UNCHANGED selfPath
                       [] copied = "nothing" ->
                            /\ Raises(Raise("OSError", "copytree"))
                            /\ UNCHANGED <<occupied, desktopCopy, selfPath>>
    /\ UNCHANGED <<cfgVars, hostVars, tmp, archive, desktopExists, stderr, ret,
                   exitcode, netCalls, opened>>

\* Bootstrap.move_to_desktop: the Desktop must exist, a free candidate is
\* searched, the session directory is copied there and _path is updated.  A
\* copy that fails may leave a partial destination behind.
MoveToDesktop ==
    /\ Enter("move_to_desktop")
    /\ LET name == getitem(config, K_sample)
           found == get_desktop_candidate(occupied)
       IN  IF ~desktopExists
           THEN /\ Raises(Raise("Exception", "Could not locate your Desktop folder"))
                /\ UNCHANGED <<occupied, desktopCopy, selfPath, dst>>
           ELSE IF name.kind # "str"
           THEN /\ Raises(IF name.kind = "raise" THEN name
                          ELSE Raise("TypeError", "cannot concatenate"))
                /\ UNCHANGED <<occupied, desktopCopy, selfPath, dst>>
           ELSE IF found.kind = "raise"
           THEN /\ Raises(found)
                /\ UNCHANGED <<occupied, desktopCopy, selfPath, dst>>
           ELSE /\ dst' = found.ordinal
                /\ \E copied \in {"all", "part", "nothing"} :
                     CASE copied = "all" ->
                            /\ occupied' = occupied \cup {found.ordinal}
                            /\ desktopCopy' = tmp
                            /\ selfPath' = "desktop"
                            /\ Returns("move_to_desktop")
                       [] copied = "part" ->
                            /\ occupied' = occupied \cup {found.ordinal}
                            /\ desktopCopy' = NewDir
                            /\ Raises(Raise("shutil.Error", "copytree"))
                            /\ UNCHANGED selfPath
                       [] copied = "nothing" ->
                            /\ Raises(Raise("OSError", "copytree"))
                            /\ UNCHANGED <<occupied, desktopCopy, selfPath>>
    /\ UNCHANGED <<cfgVars, hostVars, tmp, archive, desktopExists, stderr, ret,
                   exitcode, netCalls, opened>>

\* _open without the assertion: a missing path only makes the command fail.
open_path_unasserted(exists, outcome) ==
    IF outcome = "not started" THEN Raise("OSError", "open") ELSE None

\* _open: the assertion that the path exists, then subprocess.call, whose
\* return value is dropped; it raises OSError when the command cannot be
\* started.  `outcome` is how the command went.
open_path(exists, outcome) ==
    IF ~exists THEN Raise("AssertionError", "")
    ELSE IF outcome = "not started" THEN Raise("OSError", "open")
    ELSE None

OpenOutcomes == {"exit 0", "exit nonzero", "not started"}

\* One call _open(path) where the path exists or not: the record of the call
\* and what it raises.
Open(what, exists) ==
    \E outcome \in OpenOutcomes :
        LET r == open_path(exists, outcome)
        IN  /\ opened' = Append(opened,
                    [path |-> what, under |-> selfPath, exists |-> exists,
                     outcome |-> IF exists THEN outcome ELSE "not called"])
            /\ IF r.kind = "raise" THEN Raises(r) ELSE Returns(what)

\* Bootstrap.open_in_finder(self.samples_path()).
OpenInFinder ==
    /\ Enter("open_in_finder")
    /\ Open("open_in_finder", CurrentDir.tree.samples)
    /\ UNCHANGED <<cfgVars, hostVars, fsVars, stderr, ret, exitcode, netCalls>>

\* Bootstrap.open_in_xcode(self.xcodeproj_path()).
OpenInXcode ==
    /\ Enter("open_in_xcode")
    /\ LET project == sample_project_name(config)
       IN  IF project.kind = "raise"
           THEN Raises(project) /\ UNCHANGED opened
           ELSE Open("open_in_xcode", CurrentDir.tree.xcodeproj)
    /\ UNCHANGED <<cfgVars, hostVars, fsVars, stderr, ret, exitcode, netCalls>>

\* main, line 308: run returns None and main returns it.
MainReturn ==
    /\ pc = "return"
    /\ ret' = None
    /\ pc' = "exit"
    /\ UNCHANGED <<cfgVars, hostVars, fsVars, exc, stderr, exitcode, trace,
                   completed, netCalls, opened>>

\* The handler without its return statement: main returns None.
MainExcept_returns_none ==
    /\ pc = "except"
    /\ stderr' = Append(stderr, exc)
    /\ ret' = None
    /\ pc' = "exit"
    /\ UNCHANGED <<cfgVars, hostVars, fsVars, exc, exitcode, trace, completed,
                   netCalls, opened>>

\* main, lines 309-311: every exception is written to stderr and 1 is returned.
MainExcept ==
    /\ pc = "except"
    /\ stderr' = Append(stderr, exc)
    /\ ret' = IntValue(1)
    /\ pc' = "exit"
    /\ UNCHANGED <<cfgVars, hostVars, fsVars, exc, exitcode, trace, completed,
                   netCalls, opened>>

\* sys.exit(status): None is exit status 0, an integer is itself.
sys_exit(status) == IF status.kind = "none" THEN 0 ELSE status.n

\* line 315: sys.exit(main(sys.argv)).
SysExit ==
    /\ pc = "exit"
    /\ exitcode' = sys_exit(ret)
    /\ pc' = "done"
    /\ UNCHANGED <<cfgVars, hostVars, fsVars, exc, stderr, ret, trace, completed,
                   netCalls, opened>>

(***************************************************************************)
(* The runs of the script.                                                 *)
(***************************************************************************)
ShortCreds(ck, cs, ce) == MkMap([k |-> ck, s |-> cs, e |-> ce])

\* The decoded JSON inputs of the runs: short keys and the long keys of the
\* docstring, known and unknown samples, credentials complete, incomplete
\* and malformed.
RunValues ==
    {MkMap([s |-> Str(n), a |-> va,
            c |-> ShortCreds(Str("u:c.k"), Str("u:c.s"), ce)]) :
        n \in DOMAIN samples \cup {"chat"}, va \in {Absent, Str("u:a")},
        ce \in {Absent, Str("u:c.e")}} \cup
    {MkMap([s |-> Str("im"), c |-> vc]) :
        vc \in {Absent, Str("u:c"), ShortCreds(Absent, Str("u:c.s"), Absent),
                ShortCreds(Str("u:c.k"), Absent, Absent),
                ShortCreds(Map(<<>>), Str("u:c.s"), Absent)}} \cup
    {MkMap([sample |-> Str("im"), archive |-> Str("u:archive"),
            credentials |-> MkMap([application_key |-> Str("u:credentials.application_key"),
                                   application_secret |-> Str("u:credentials.application_secret"),
                                   environment |-> Str("u:credentials.environment")])]),
     MkMap([s |-> Map(<<>>), c |-> ShortCreds(Str("u:c.k"), Str("u:c.s"), Absent)]),
     MkMap([s |-> Str("im"), a |-> Map(<<>>),
            c |-> ShortCreds(Str("u:c.k"), Str("u:c.s"), Absent)]),
     Map(<<>>), Str("u:top")}

Args ==
    {[kind |-> "badbase64"], [kind |-> "badjson"]} \cup
    {[kind |-> "json", values |-> v] : v \in RunValues}

\* The Desktops of the runs: none, a few and nearly all candidates taken.
RunDesktops ==
    {Prefix(k) : k \in {0, 1, 2, Attempts - 1, Attempts, MaxOrdinal + 1}} \cup
    {Prefix(3) \ {1}, Prefix(Attempts) \cup {MaxOrdinal}}

\* What is the same at the start of every run.
Fresh ==
    /\ lookupKey = <<>>
    /\ lookupResult = NoLookup
    /\ tmp = NoDir
    /\ archive = NoArchive
    /\ desktopCopy = NoDir
    /\ selfPath = "none"
    /\ dst = -1
    /\ exc = NoExc
    /\ stderr = <<>>
    /\ ret = NoRet
    /\ exitcode = -1
    /\ trace = <<>>
    /\ completed = <<>>
    /\ netCalls = 0
    /\ opened = <<>>

Init ==
    /\ Fresh
    /\ sessions = NoSessions
    /\ config = NoConfig
    /\ pc = "main"
    /\ argc \in 1..3
    /\ arg \in Args
    /\ isDarwin \in BOOLEAN
    /\ xcodeInstalled \in BOOLEAN
    /\ desktopExists \in BOOLEAN
    /\ occupied \in (IF desktopExists THEN RunDesktops ELSE {{}})

Next ==
    \/ Main
    \/ VerifyHostmachine
    \/ ReadConfig
    \/ BootstrapInit
    \/ SampleName
    \/ DownloadArchive
    \/ Unpack
    \/ VerifyUnpacked
    \/ InjectCredentials
    \/ MoveToDesktop
    \/ OpenInFinder
    \/ OpenInXcode
    \/ MainReturn
    \/ MainExcept
    \/ SysExit

Spec == Init /\ [][Next]_vars

(***************************************************************************)
(* Config lookup on its own: any user values, one lookup.                  *)
(***************************************************************************)
\* The script at rest: no run of main in progress.
Idle ==
    /\ pc = "idle"
    /\ argc = 2
    /\ arg = [kind |-> "json", values |-> Map(<<>>)]
    /\ isDarwin = TRUE
    /\ xcodeInstalled = TRUE
    /\ desktopExists = TRUE
    /\ occupied = {}

InitConfig ==
    /\ Fresh
    /\ sessions = NoSessions
    /\ Idle
    /\ config \in UserValues

\* One call config[key].
ConfigGetItem ==
    /\ lookupResult = NoLookup
    /\ \E key \in LookupKeys :
        /\ lookupKey' = key
        /\ lookupResult' = getitem(config, key)
    /\ UNCHANGED <<config, hostVars, fsVars, runVars>>

NextConfig == ConfigGetItem

SpecConfig == InitConfig /\ [][NextConfig]_vars

(***************************************************************************)
(* Credential injection on its own: a session that has unpacked and        *)
(* verified an archive, any number of placeholders in AppDelegate.m.       *)
(***************************************************************************)
\* What is the same in every session that has got past the host checks.
Started ==
    /\ argc = 2
    /\ isDarwin = TRUE
    /\ xcodeInstalled = TRUE
    /\ lookupKey = <<>>
    /\ lookupResult = NoLookup
    /\ desktopCopy = NoDir
    /\ selfPath = "tmp"
    /\ dst = -1
    /\ exc = NoExc
    /\ stderr = <<>>
    /\ ret = NoRet
    /\ exitcode = -1
    /\ netCalls = 1
    /\ opened = <<>>

\* The session directory after the archive holding `f` was unpacked.
Unpacked(f) ==
    /\ archive = [body |-> "tar.bz2", tree |-> Tree(TRUE, TRUE, TRUE, f)]
    /\ tmp = [exists |-> TRUE, package |-> "tar.bz2", tree |-> archive.tree]

InjectValues ==
    {MkMap([s |-> Str("im"), c |-> ShortCreds(Str("u:c.k"), Str("u:c.s"), ce)]) :
        ce \in {Absent, Str("u:c.e")}}

InitInject ==
    /\ Started
    /\ sessions = NoSessions
    /\ pc = "inject_credentials"
    /\ arg \in {[kind |-> "json", values |-> v] : v \in InjectValues}
    /\ config = arg.values
    /\ \E nk \in 0..MaxOccurrences, ns \in 0..MaxOccurrences, ne \in 0..MaxOccurrences :
        Unpacked(File(SourceFile(nk, ns, ne)))
    /\ desktopExists = TRUE
    /\ occupied = {}
    /\ trace = <<"sample_name", "download_archive", "unpack", "verify_unpacked">>
    /\ completed = trace

NextInject == InjectCredentials

SpecInject == InitInject /\ [][NextInject]_vars

(***************************************************************************)
(* The destination search on its own: a session about to relocate, any     *)
(* run of occupied names on the Desktop, with or without one gap.          *)
(***************************************************************************)
SearchDesktops ==
    {Prefix(k) : k \in 0..(MaxOrdinal + 1)} \cup
    {Prefix(k) \ {h} : k \in 0..(MaxOrdinal + 1), h \in 0..MaxOrdinal}

InitCandidate ==
    /\ Started
    /\ sessions = NoSessions
    /\ pc = "move_to_desktop"
    /\ arg = [kind |-> "json",
              values |-> MkMap([s |-> Str("im"),
                                c |-> ShortCreds(Str("u:c.k"), Str("u:c.s"), Absent)])]
    /\ config = arg.values
    /\ Unpacked(File(<<"u:c.k", "u:c.s">>))
    /\ desktopExists \in BOOLEAN
    /\ occupied \in (IF desktopExists THEN SearchDesktops ELSE {{}})
    /\ trace = <<"sample_name", "download_archive", "unpack", "verify_unpacked",
                 "inject_credentials">>
    /\ completed = trace

NextCandidate == MoveToDesktop

SpecCandidate == InitCandidate /\ [][NextCandidate]_vars

(***************************************************************************)
(* Two sessions for the same sample relocating at the same time: two       *)
(* processes past inject_credentials, each about to call move_to_desktop,  *)
(* sharing one Desktop.  A session is its position in move_to_desktop, its *)
(* dst (-1 before the search), its _path and what it raised.               *)
(***************************************************************************)
Sessions == {1, 2}

AtMoveToDesktop == [pc |-> "move_to_desktop", dst |-> -1, path |-> "tmp", exc |-> NoExc]

SessionRaises(p, e) ==
    sessions' = [sessions EXCEPT ![p].pc = "raised", ![p].exc = e]

\* The search that also creates the directory it selects.
SelectDestination_reserving(p) ==
    /\ sessions[p].pc = "move_to_desktop"
    /\ LET found == get_desktop_candidate(occupied)
       IN  IF ~desktopExists
           THEN /\ SessionRaises(p, Raise("Exception", "Could not locate your Desktop folder"))
                /\ UNCHANGED occupied
           ELSE IF found.kind = "raise"
           THEN SessionRaises(p, found) /\ UNCHANGED occupied
           ELSE /\ sessions' = [sessions EXCEPT ![p].pc = "assert",
                                                 ![p].dst = found.ordinal]
                /\ occupied' = occupied \cup {found.ordinal}
    /\ UNCHANGED <<cfgVars, argc, arg, isDarwin, xcodeInstalled, tmp, archive,
                   desktopExists, desktopCopy, selfPath, dst, runVars>>

\* move_to_desktop, lines 194-198: the Desktop must exist, then
\* get_desktop_candidate reads the Desktop and returns the first free path.
SelectDestination(p) ==
    /\ sessions[p].pc = "move_to_desktop"
    /\ LET found == get_desktop_candidate(occupied)
       IN  IF ~desktopExists
           THEN SessionRaises(p, Raise("Exception", "Could not locate your Desktop folder"))
           ELSE IF found.kind = "raise"
           THEN SessionRaises(p, found)
           ELSE sessions' = [sessions EXCEPT ![p].pc = "assert",
                                             ![p].dst = found.ordinal]
    /\ UNCHANGED <<cfgVars, argc, arg, isDarwin, xcodeInstalled, fsVars, runVars>>

\* move_to_desktop, line 199: assert not os.path.exists(dst).
AssertFree(p) ==
    /\ sessions[p].pc = "assert"
    /\ IF sessions[p].dst \in occupied
       THEN SessionRaises(p, Raise("AssertionError", ""))
       ELSE sessions' = [sessions EXCEPT ![p].pc = "copytree"]
    /\ UNCHANGED <<cfgVars, argc, arg, isDarwin, xcodeInstalled, fsVars, runVars>>

\* move_to_desktop, lines 201-203: shutil.copytree makes the directory dst
\* and fails when it exists; a copy that fails later leaves a partial
\* destination; _path is updated once copytree has returned.
Copytree(p) ==
    /\ sessions[p].pc = "copytree"
    /\ IF sessions[p].dst \in occupied
       THEN /\ SessionRaises(p, Raise("OSError", "File exists"))
            /\ UNCHANGED occupied
       ELSE \E copied \in {"all", "part", "nothing"} :
              CASE copied = "all" ->
                     /\ occupied' = occupied \cup {sessions[p].dst}
                     /\ sessions' = [sessions EXCEPT ![p].pc = "returned",
                                                       ![p].path = "desktop"]
                [] copied = "part" ->
                     /\ occupied' = occupied \cup {sessions[p].dst}
                     /\ SessionRaises(p, Raise("shutil.Error", "copytree"))
                [] copied = "nothing" ->
                     /\ SessionRaises(p, Raise("OSError", "copytree"))
                     /\ UNCHANGED occupied
    /\ UNCHANGED <<cfgVars, argc, arg, isDarwin, xcodeInstalled, tmp, archive,
                   desktopExists, desktopCopy, selfPath, dst, runVars>>

\* The Desktops of the two sessions: free, a few names taken, one name left.
RaceDesktops ==
    {Prefix(k) : k \in {0, 1, 2, Attempts - 1, Attempts}} \cup {Prefix(3) \ {1}}

InitRace ==
    /\ Fresh
    /\ pc = "idle"
    /\ argc = 2
    /\ arg = [kind |-> "json",
              values |-> MkMap([s |-> Str("im"),
                                c |-> ShortCreds(Str("u:c.k"), Str("u:c.s"), Absent)])]
    /\ config = arg.values
    /\ isDarwin = TRUE
    /\ xcodeInstalled = TRUE
    /\ desktopExists \in BOOLEAN
    /\ occupied \in (IF desktopExists THEN RaceDesktops ELSE {{}})
    /\ sessions = [p \in Sessions |-> AtMoveToDesktop]

NextRace ==
    \/ \E p \in Sessions : SelectDestination(p)
    \/ \E p \in Sessions : AssertFree(p)
    \/ \E p \in Sessions : Copytree(p)

SpecRace == InitRace /\ [][NextRace]_vars

(***************************************************************************)
(* Claims about Config lookup, read in the state after one lookup.         *)
(***************************************************************************)
\* What a plain walk along `path` finds: no aliasing, None when a segment is
\* absent, null or reached through a value that is no mapping.
RECURSIVE Walk(_, _)
Walk(v, path) ==
    IF path = <<>> THEN v
    ELSE IF v.kind # "map" THEN None
    ELSE Walk(dict_get(v, Head(path)), Tail(path))

ShortKey(key) == IF key \in DOMAIN keyaliases THEN keyaliases[key] ELSE key

\* The non-null values the user gives for `key`, under its long or its short name.
UserProvided(key) ==
    {v \in {Walk(config, key), Walk(config, ShortKey(key))} : v.kind # "none"}

LookedUp == lookupResult # NoLookup

\* C2: a canonical key the user values provide with a non-null value, under its
\* long name or under its short alias, looks up to the user's value, never to
\* the default and never to an error.
C2_UserValueReturned ==
    (LookedUp /\ lookupKey \in CanonicalKeys /\ UserProvided(lookupKey) # {})
        => lookupResult \in UserProvided(lookupKey)

\* C9: a key the user values do not provide, under either name, and the
\* defaults provide looks up to the default value.
C9_DefaultReturned ==
    (/\ LookedUp
     /\ UserProvided(lookupKey) = {}
     /\ Walk(defaults, lookupKey).kind # "none")
        => lookupResult = Walk(defaults, lookupKey)

\* C10: a key whose path is absent from the user values and from the defaults
\* (an absent or non-mapping intermediate segment included) raises the
\* missing-key error, which names the key as the caller gave it.
C10_MissingKeyError ==
    (/\ LookedUp
     /\ UserProvided(lookupKey) = {}
     /\ Walk(defaults, lookupKey).kind = "none")
        => lookupResult = Raise("KeyError", lookupKey)

\* Two lookups end the same way: the same value, or a missing-key error both.
SameOutcome(r1, r2) ==
    \/ r1 = r2
    \/ r1.kind = "raise" /\ r2.kind = "raise" /\ r1.exc = "KeyError" /\ r2.exc = "KeyError"

\* C11: for every pair of the alias table, looking up the canonical key and
\* looking up its short alias give the same outcome on any user values: the
\* same value, or the missing-key error in both cases.
C11_AliasTransparent ==
    (LookedUp /\ lookupKey \in CanonicalKeys)
        => SameOutcome(lookupResult, getitem(config, keyaliases[lookupKey]))

\* The lookup with the alias substituted once, for the whole key, and plain
\* walks below it and over the defaults.
AliasOnceLookup(values, key) ==
    LET v == Walk(values, ShortKey(key))
        d == Walk(defaults, key)
    IN  IF v.kind # "none" THEN v
        ELSE IF d.kind # "none" THEN d
        ELSE Raise("KeyError", key)

\* C18: the alias is substituted at most once per lookup, for the whole key:
\* never for the remaining segments inside a nested mapping and never in the
\* walk over the defaults, so a lookup that returns a value returns the one
\* the once-aliased path leads to.
C18_AliasAppliedOnce ==
    (LookedUp /\ lookupResult.kind # "raise")
        => lookupResult = AliasOnceLookup(config, lookupKey)

(***************************************************************************)
(* Claims about the runs.                                                  *)
(***************************************************************************)
Entered(step) == \E i \in DOMAIN trace : trace[i] = step
Finished(step) == \E i \in DOMAIN completed : completed[i] = step

IsPrefix(p, q) == Len(p) <= Len(q) /\ \A i \in DOMAIN p : p[i] = q[i]

\* The configured sample name is a string outside the enumeration.
UnknownSampleConfigured ==
    LET name == getitem(config, K_sample)
    IN  name.kind = "str" /\ name.s \notin {"im", "app-to-app", "app-to-phone", "video"}

\* C1: a run whose configured sample name is not im, app-to-app, app-to-phone
\* or video fails before the download is started: no network call is made and
\* neither the download nor the extraction step is entered.
C1_UnknownSampleFailsBeforeDownload ==
    UnknownSampleConfigured
        => netCalls = 0 /\ ~Entered("download_archive") /\ ~Entered("unpack")

EightSteps ==
    <<"sample_name", "download_archive", "unpack", "verify_unpacked",
      "inject_credentials", "move_to_desktop", "open_in_finder", "open_in_xcode">>

\* C3: the exit code is 0 exactly when all eight steps completed without
\* error, it is 1 in every run in which an error was reported, and no run
\* ends with another exit code.
C3_ExitCode ==
    /\ pc # "done" => exitcode = -1
    /\ pc = "done" =>
        /\ exitcode \in {0, 1}
        /\ exitcode = 0 <=> completed = EightSteps
        /\ (exc # NoExc \/ stderr # <<>>) => exitcode = 1

C3_Witness == pc = "done" /\ exitcode = 0 /\ completed = EightSteps

\* C4: the steps are entered in the fixed order fetch, extract, verify,
\* inject, relocate, reveal, open, none of them twice; once a step has raised,
\* no step is entered any more and the only transitions left lead to exit.
C4_FixedOrderNoRetry ==
    [][/\ IsPrefix(trace', EightSteps)
       /\ Len(trace') <= Len(trace) + 1
       /\ exc # NoExc => (trace' = trace /\ exc' = exc /\ pc' \in {"exit", "done"})
       /\ pc = "except" => pc' = "exit"]_vars

C4_Witness ==
    /\ pc = "done"
    /\ exc.kind = "raise"
    /\ trace = <<"sample_name", "download_archive", "unpack">>
    /\ completed = <<"sample_name", "download_archive">>

\* C5 as claimed, read on the runs in which both commands could be started:
\* once relocation has succeeded the run ends with exit code 0, whatever the
\* reveal and open actions return and whether or not their target paths exist.
C5_RelocatedRunSucceeds ==
    (/\ pc = "done"
     /\ Finished("move_to_desktop")
     /\ \A i \in DOMAIN opened : opened[i].outcome # "not started")
        => exitcode = 0

\* C5 as amended: once relocation has succeeded, the exit status of the reveal
\* and open commands is never observed; the run ends with exit code 0 exactly
\* when both target paths exist and both commands could be started.  The
\* samples directory always exists in the relocated copy; a missing .xcodeproj
\* or a command that cannot be started ends the run with exit code 1.
C5_RelocatedRunExit ==
    (pc = "done" /\ Finished("move_to_desktop")) =>
        /\ opened[1].exists /\ opened[1].under = "desktop"
        /\ exitcode = 0 <=>
            /\ desktopCopy.tree.xcodeproj
            /\ \A i \in DOMAIN opened : opened[i].outcome # "not started"

C5_Witness ==
    /\ pc = "done"
    /\ exitcode = 0
    /\ Len(opened) = 2
    /\ opened[1].outcome = "exit nonzero"
    /\ opened[2].outcome = "exit nonzero"

Holds(content, token) == \E i \in DOMAIN content : content[i] = token

C13_InvalidArchiveRejected ==
    (Entered("unpack") /\ pc # "unpack"
        /\ tmp.package \in {"text", "tar", "truncated"}) =>
            /\ exc = Raise("Exception", "Unable to read package file")
            /\ tmp.tree = EmptyTree

\* C14: a zero-byte download is rejected by download_archive with "Failed to
\* download"; unpack is never entered on an empty file.
C14_EmptyDownloadRejected ==
    tmp.package = "empty" =>
        /\ ~Entered("unpack")
        /\ ~Finished("download_archive")
        /\ exc = Raise("Exception", "Failed to download")

C14_Witness ==
    /\ pc = "done"
    /\ tmp.package = "empty"
    /\ exitcode = 1
    /\ trace = <<"sample_name", "download_archive">>

HostCheckFails == ~isDarwin \/ ~xcodeInstalled

\* C15: on a host that fails the platform check or the Xcode check, no
\* temporary directory is ever created, no configuration is decoded, no
\* download is started and no step of the pipeline is entered.
C15_HostCheckAbortsFirst ==
    HostCheckFails =>
        /\ tmp = NoDir
        /\ selfPath = "none"
        /\ config = NoConfig
        /\ netCalls = 0
        /\ archive = NoArchive
        /\ desktopCopy = NoDir
        /\ trace = <<>>
        /\ pc \notin {"read_config", "Bootstrap", "return"}

C15_Witness ==
    /\ pc = "done"
    /\ argc = 2
    /\ isDarwin
    /\ ~xcodeInstalled
    /\ exc = Raise("Exception", "Xcode not installed?")
    /\ exitcode = 1

\* C16 as claimed: once the session directory has been relocated, the
\* temporary directory no longer exists; a finished run leaves a temporary
\* directory behind only when it was aborted by an error.
C16_TemporaryDirectoryMoved ==
    /\ Finished("move_to_desktop") => ~tmp.exists
    /\ (pc = "done" /\ tmp.exists) => exitcode # 0

\* C19: the working-directory reference names the temporary directory until
\* move_to_desktop has returned and the chosen Desktop destination from then
\* on; a move_to_desktop that raises leaves it at the temporary directory;
\* open_in_finder and open_in_xcode are only called on paths under the
\* relocated destination.
C19_PathFollowsRelocation ==
    /\ selfPath # "none" =>
          /\ selfPath = "desktop" <=> Finished("move_to_desktop")
          /\ selfPath = "tmp" => tmp.exists
          /\ selfPath = "desktop" =>
                dst \in occupied /\ desktopCopy.exists /\ CurrentDir = desktopCopy
    /\ \A i \in DOMAIN opened : opened[i].under = "desktop"

C19_Witness ==
    /\ pc = "done"
    /\ selfPath = "desktop"
    /\ dst \in occupied
    /\ Len(opened) = 2
    /\ opened[1].under = "desktop"

\* C20: the Desktop changes only in a run in which download_archive, unpack,
\* verify_unpacked and inject_credentials have all returned; a run that
\* raises in one of them leaves the Desktop as it was.
C20_DesktopChangesAfterInjection ==
    [][(occupied' # occupied \/ desktopCopy' # desktopCopy) =>
          /\ Finished("download_archive")
          /\ Finished("unpack")
          /\ Finished("verify_unpacked")
          /\ Finished("inject_credentials")]_vars

C20_Witness ==
    /\ pc = "done"
    /\ Entered("inject_credentials")
    /\ ~Entered("move_to_desktop")
    /\ exc = Raise("KeyError", K_application_key)
    /\ desktopExists
    /\ desktopCopy = NoDir

(***************************************************************************)
(* Claims about credential injection.                                      *)
(***************************************************************************)
\* C6: injection replaces every occurrence of the key placeholder, of the
\* secret placeholder and of a quoted environment host name, however many
\* there are, and no placeholder is left in the file.
C6_AllOccurrencesReplaced ==
    Finished("inject_credentials") =>
        LET before == archive.tree.delegate.content
            after == tmp.tree.delegate.content
        IN  /\ Len(after) = Len(before)
            /\ \A i \in DOMAIN before :
                /\ before[i] = KEY_PLACEHOLDER
                    => after[i] = getitem(config, K_application_key).s
                /\ before[i] = SECRET_PLACEHOLDER
                    => after[i] = getitem(config, K_application_secret).s
                /\ before[i] \in ENVIRONMENT_MATCHES
                    => after[i] = Quote(getitem(config, K_environment).s)
            /\ \A i \in DOMAIN after :
                after[i] \notin {KEY_PLACEHOLDER, SECRET_PLACEHOLDER}

(***************************************************************************)
(* Claims about concurrent sessions.                                       *)
(***************************************************************************)
Selected(p) == sessions[p].pc \in {"assert", "copytree"}

\* C17: the destination search of a session reads the Desktop and creates
\* nothing there, so the candidate it returns stays free until a copy; two
\* sessions for the same sample can both hold the same destination, selected
\* and asserted free, before either has copied.
C17_SearchReservesNothing ==
    [][\A p \in Sessions :
          (sessions[p].pc = "move_to_desktop" /\ sessions'[p].pc = "assert") =>
              /\ occupied' = occupied
              /\ sessions'[p].dst \notin occupied'
              /\ \A q \in Sessions \ {p} :
                    Selected(q) /\ sessions[q].dst \notin occupied
                        => sessions'[p].dst = sessions[q].dst]_vars

C17_Witness ==
    /\ sessions[1].pc = "copytree"
    /\ sessions[2].pc = "copytree"
    /\ sessions[1].dst = sessions[2].dst
    /\ sessions[1].dst \notin occupied

(***************************************************************************)
(* Claims about the destination search.                                    *)
(***************************************************************************)
\* C7: the candidate get_desktop_candidate returns does not exist when it is
\* checked, and every candidate before it in the order base, base-1, base-2,
\* ... is occupied.
C7_FirstFreeCandidate ==
    [][dst' # dst =>
        /\ dst' \notin occupied
        /\ \A j \in 0..(dst' - 1) : j \in occupied]_vars

C7_Witness == dst = 98 /\ selfPath = "desktop"

NoDestination ==
    exc = Raise("Exception", "Could not find suitable target directory in ~/Desktop")

\* C8 as claimed: the search signals "no suitable destination" exactly when
\* the bare name and the names with the suffixes -1 .. -99 are all occupied;
\* with the bare name and -1 .. -98 occupied and -99 free it finds -99.
C8_SearchReachesSuffix99 ==
    [][(pc = "move_to_desktop" /\ desktopExists) =>
        /\ NoDestination' <=> (\A i \in 0..99 : i \in occupied)
        /\ ((\A i \in 0..98 : i \in occupied) /\ 99 \notin occupied) => dst' = 99]_vars

\* C8 as amended: the search makes 99 attempts, the bare name and the
\* suffixes -1 .. -98, and signals "no suitable destination" exactly when all
\* 99 are occupied; the suffix -99 is never tried, so with the bare name and
\* -1 .. -98 occupied the search fails also when -99 is free.
C8_SearchStopsAtSuffix98 ==
    [][(pc = "move_to_desktop" /\ desktopExists) =>
        /\ NoDestination' <=> (\A i \in 0..98 : i \in occupied)
        /\ ~NoDestination' => dst' \in 0..98]_vars

C8_Witness ==
    /\ NoDestination
    /\ \A i \in 0..98 : i \in occupied
    /\ 99 \notin occupied

====
